---- MODULE Spec2Model ----
(***************************************************************************)
(* A model of the mpool memory pool allocator (mpool.c: mpool_init,        *)
(* mpool_new_pool, add_pool, mpool_alloc, mpool_repool, mpool_realloc,     *)
(* mpool_free) together with the byte-addressed memory it threads its      *)
(* free lists through.                                                     *)
(*                                                                         *)
(* Sizes are scaled: a pointer is PtrSize = 2 bytes wide, a page is        *)
(* PageSize = 8 bytes and the pool set is built by mpool_init(2, 4), so    *)
(* the cell sizes are 4, 8 and 16 bytes.  The scaling keeps every case the *)
(* code distinguishes: a class with several cells per page (4), a class    *)
(* whose cell is exactly one page (8), a class whose cell is larger than   *)
(* a page (16), and requests at, below and above max_pool.                 *)
(***************************************************************************)
EXTENDS Integers, Sequences, FiniteSets, Bags, TLC

\* ------------------------------------------------------------------------
\* Platform and configuration
\* ------------------------------------------------------------------------
PtrSize == 2       \* sizeof(void *)
IntSize == 1       \* sizeof(int)
PageSize == 8      \* sysconf(_SC_PAGESIZE)
AssertFloor == 8   \* the (void *)4096 of mpool_alloc's assertion: the first page
MinExp == 2        \* min2 handed to mpool_init
MaxExp == 4        \* max2 handed to mpool_init

MaxMaps == 3       \* regions the operating system hands out in one run
MaxLive == 2       \* allocations the client holds at one time

NULL == 0
\* Bytes of memory: 0 is a zero byte, a positive value a is the first byte of
\* a stored pointer to address a, PtrTail is every further byte of a stored
\* non-null pointer, and values below PtrTail are bytes the client wrote.
PtrTail == 0 - 1
\* What a word reads as when its bytes are not one stored pointer.
Junk == 1

Max(a, b) == IF a >= b THEN a ELSE b

RECURSIVE Pow2(_)
Pow2(n) == IF n <= 0 THEN 1 ELSE 2 * Pow2(n - 1)

\* mmap and munmap work on whole pages.
PageRound(n) == ((n + PageSize - 1) \div PageSize) * PageSize

\* The k-th region mmap hands out starts at Base(k); consecutive regions are
\* separated by at least one unmapped page and address 0 is never mapped.
Slot == PageRound(Pow2(MaxExp) + 1) + PageSize
Base(k) == k * Slot

\* The sizes the client asks for: below, at and between the class sizes, and
\* at and above max_pool.
ReqSizes == {Pow2(MinExp) - 1, Pow2(MinExp), Pow2(MaxExp - 1),
             Pow2(MaxExp), Pow2(MaxExp) + 1}

\* ------------------------------------------------------------------------
\* Memory: a function from the mapped addresses to bytes
\* ------------------------------------------------------------------------
Mapped(m, a, n) == \A k \in 0..(n - 1) : (a + k) \in DOMAIN m

StoreWord(m, a, v) ==
    [x \in DOMAIN m |->
        IF x = a THEN v
        ELSE IF x \in (a + 1)..(a + PtrSize - 1)
             THEN (IF v = NULL THEN 0 ELSE PtrTail)
             ELSE m[x]]

LoadWord(m, a) ==
    IF \A k \in 0..(PtrSize - 1) : m[a + k] = 0 THEN NULL
    ELSE IF m[a] > 0 /\ \A k \in 1..(PtrSize - 1) : m[a + k] = PtrTail THEN m[a]
    ELSE Junk

MapRegion(m, p, sz) ==
    [a \in DOMAIN m \cup p..(p + PageRound(sz) - 1) |->
        IF a \in DOMAIN m THEN m[a] ELSE 0]

\* memcpy(r, p, n), byte by byte.
CopyBytes(m, r, p, n) ==
    [x \in DOMAIN m |-> IF x \in r..(r + n - 1) THEN m[p + (x - r)] ELSE m[x]]

\* The client writes the byte Data over the sz bytes of its allocation at p.
Data == 0 - 2
FillBytes(m, p, sz) ==
    [x \in DOMAIN m |-> IF x \in p..(p + sz - 1) THEN Data ELSE m[x]]

\* munmap(p, sz): EINVAL for an unaligned address or an empty length,
\* otherwise every page of [p, p + sz) is unmapped.
munmap_rc(p, sz) == IF p % PageSize # 0 \/ sz <= 0 THEN 0 - 1 ELSE 0
munmap_mem(m, p, sz) ==
    IF munmap_rc(p, sz) # 0 THEN m
    ELSE [a \in DOMAIN m \ (p..(p + PageRound(sz) - 1)) |-> m[a]]

\* ------------------------------------------------------------------------
\* The bookkeeping arrays: functions from 0..n-1
\* ------------------------------------------------------------------------
\* A block grown to n slots; realloc leaves the new slots uninitialised.
GrowArr(f, n) ==
    [i \in 0..(Max(n, Cardinality(DOMAIN f)) - 1) |->
        IF i \in DOMAIN f THEN f[i] ELSE Junk]
\* A block that was freed: the allocator has reused its bytes.
ScribbleArr(f) == [i \in DOMAIN f |-> Junk]
\* f[i] = v; a store one past the block lands in the memory behind it.
SetArr(f, i, v) ==
    [j \in DOMAIN f \cup {i} |-> IF j = i THEN v ELSE f[j]]

\* ------------------------------------------------------------------------
\* iceil2: base-2 integer ceiling on unsigned words
\* ------------------------------------------------------------------------
UIntMod == Pow2(16)

RECURSIVE BitOr(_, _)
BitOr(a, b) ==
    IF a = 0 THEN b
    ELSE IF b = 0 THEN a
    ELSE (IF a % 2 = 1 \/ b % 2 = 1 THEN 1 ELSE 0) + 2 * BitOr(a \div 2, b \div 2)

Smear(x, k) == BitOr(x, x \div Pow2(k))

iceil2(x) ==
    LET x0 == (x - 1) % UIntMod
        x1 == Smear(x0, 1)
        x2 == Smear(x1, 2)
        x3 == Smear(x2, 4)
        x4 == Smear(x3, 8)
        x5 == Smear(x4, 16)
    IN (x5 + 1) % UIntMod

\* ------------------------------------------------------------------------
\* The allocator.  A program state s is a record:
\*   mp    the mpool structure: ct, pal, min_pool, max_pool, pg_sz, hs
\*   ps    the block mp->ps points to,    sizes  the block mp->sizes points to
\*   blk   the malloc'd blocks: slots allocated, freed or not
\*   mem   the mapped memory,  nmaps  the regions mapped so far
\*   acq   every region acquired: <<base, bytes asked for, cell size>>
\*   rel   every munmap call:     <<address, bytes, caller, result>>
\*   st    "ok", "aborted" (an assertion failed) or "crashed" (a fault)
\* ------------------------------------------------------------------------
\* What the environment does to one call: whether the first and the second
\* mmap of the call succeed, and how the two reallocs of add_pool end: "ok",
\* "fail", "moved" (it succeeded by moving the block and freed the old one,
\* which matters when the other realloc fails and the old pointer is kept)
\* or "reused" (moved, and the freed bytes have been handed out again: a
\* read through the kept pointer may find the old contents or anything).
EnvOK == [m1 |-> TRUE, m2 |-> TRUE, rp |-> "ok", rs |-> "ok"]
EnvFail ==
    { [m1 |-> FALSE, m2 |-> TRUE,  rp |-> "ok",    rs |-> "ok"],
      [m1 |-> TRUE,  m2 |-> FALSE, rp |-> "ok",    rs |-> "ok"],
      [m1 |-> TRUE,  m2 |-> TRUE,  rp |-> "fail",  rs |-> "fail"],
      [m1 |-> TRUE,  m2 |-> TRUE,  rp |-> "fail",  rs |-> "ok"],
      [m1 |-> TRUE,  m2 |-> TRUE,  rp |-> "fail",  rs |-> "moved"],
      [m1 |-> TRUE,  m2 |-> TRUE,  rp |-> "ok",    rs |-> "fail"],
      [m1 |-> TRUE,  m2 |-> TRUE,  rp |-> "moved", rs |-> "fail"],
      [m1 |-> TRUE,  m2 |-> TRUE,  rp |-> "fail",  rs |-> "reused"],
      [m1 |-> TRUE,  m2 |-> TRUE,  rp |-> "reused", rs |-> "fail"] }
Env == {EnvOK} \cup EnvFail

\* if (mp->ct == mp->pal): add_pool calls realloc only then, so only then can
\* an outcome of realloc tell one environment from another.
FailuresAt(ct, pal) ==
    {env \in EnvFail : (env.rp # "ok" \/ env.rs # "ok") => ct = pal}

\* get_mmap that ends the program when mmap fails
get_mmap_err(s, sz, cell, ok) ==
    IF ok /\ sz > 0
    THEN [s |-> [s EXCEPT !.mem = MapRegion(@, Base(s.nmaps + 1), sz),
                          !.nmaps = @ + 1,
                          !.acq = Append(@, <<Base(s.nmaps + 1), sz, cell>>)],
          p |-> Base(s.nmaps + 1)]
    ELSE [s |-> [s EXCEPT !.st = "aborted"], p |-> NULL]

\* p = mmap(...); if (p == MAP_FAILED) return NULL; return p;
get_mmap(s, sz, cell, ok) ==
    IF ok /\ sz > 0
    THEN LET p == Base(s.nmaps + 1)
         IN [s |-> [s EXCEPT !.mem = MapRegion(@, p, sz),
                             !.nmaps = @ + 1,
                             !.acq = Append(@, <<p, sz, cell>>)],
             p |-> p]
    ELSE [s |-> s, p |-> NULL]

\* The loop of mpool_new_pool: cell i, at word offset o, links to the cell
\* sz bytes further on.
RECURSIVE LinkCells(_, _, _, _, _)
LinkCells(m, p, sz, lim, i) ==
    IF i >= lim THEN m
    ELSE LET o == (i * sz) \div PtrSize
         IN LinkCells(StoreWord(m, p + o * PtrSize,
                                p + (o + (sz \div PtrSize)) * PtrSize),
                      p, sz, lim, i + 1)

\* LastOffset that ends the list at the first cell
LastOffsetFirst(sz, lim) == 0

LastOffset(sz, lim) == IF lim <= 0 THEN 0 ELSE ((lim - 1) * sz) \div PtrSize

\* After the mmap of mpool_new_pool: g is what get_mmap returned.
new_pool_cells(s, g, sz, lim) ==
    IF g.p = NULL THEN [s |-> s, p |-> NULL]
    ELSE IF ~(sz > PtrSize) THEN [s |-> [g.s EXCEPT !.st = "aborted"], p |-> NULL]
    ELSE [s |-> [g.s EXCEPT !.mem =
                    StoreWord(LinkCells(@, g.p, sz, lim, 0),
                              g.p + LastOffset(sz, lim) * PtrSize, NULL)],
          p |-> g.p]

mpool_new_pool(s, sz, total_sz, ok) ==
    new_pool_cells(s, get_mmap(s, Max(sz, total_sz), sz, ok), sz, total_sz \div sz)

add_pool(s, p, sz, env) ==
    LET grow == s.mp.ct = s.mp.pal
        pal2 == IF grow THEN 2 * s.mp.pal ELSE s.mp.pal
        \* after the two reallocs
        ps1 == IF ~grow \/ env.rp = "fail" THEN s.ps ELSE GrowArr(s.ps, pal2)
        sz1 == IF ~grow \/ env.rs = "fail" THEN s.sizes
               ELSE GrowArr(s.sizes, (pal2 * PtrSize) \div IntSize)
        failed == grow /\ (env.rp = "fail" \/ env.rs = "fail")
    IN IF failed
       THEN \* mp->ps and mp->sizes keep their old values
            [s |-> [s EXCEPT
                     !.mp.pal = pal2,
                     !.ps = IF env.rp = "reused" THEN ScribbleArr(@)
                            ELSE IF env.rp = "moved" THEN @ ELSE ps1,
                     !.sizes = IF env.rs = "reused" THEN ScribbleArr(@)
                               ELSE IF env.rs = "moved" THEN @ ELSE sz1,
                     !.blk.psCap = IF env.rp = "ok" THEN pal2 ELSE @,
                     !.blk.sizesCap = IF env.rs = "ok"
                                      THEN (pal2 * PtrSize) \div IntSize ELSE @,
                     !.blk.psFreed = @ \/ env.rp \in {"moved", "reused"},
                     !.blk.sizesFreed = @ \/ env.rs \in {"moved", "reused"},
                     !.blk.lost = @ + (IF env.rp \in {"moved", "reused"} THEN 1 ELSE 0)
                                    + (IF env.rs \in {"moved", "reused"} THEN 1 ELSE 0)],
             rc |-> 0 - 1]
       ELSE [s |-> [s EXCEPT
                     !.mp.pal = pal2,
                     !.mp.ct = @ + 1,
                     !.ps = SetArr(ps1, s.mp.ct, p),
                     !.sizes = SetArr(sz1, s.mp.ct, sz),
                     !.blk.psCap = IF grow THEN pal2 ELSE @,
                     !.blk.sizesCap = IF grow THEN (pal2 * PtrSize) \div IntSize
                                      ELSE @],
             rc |-> 0]

mpool_init(min2, max2) ==
    LET ct == max2 - min2 + 1
        palen == iceil2(ct)
    IN [mp |-> [ct |-> ct, pal |-> palen, pg_sz |-> PageSize,
                min_pool |-> Pow2(min2), max_pool |-> Pow2(max2),
                hs |-> [i \in 0..(ct - 1) |-> NULL]],
        ps |-> [i \in 0..(palen - 1) |-> NULL],
        sizes |-> [i \in 0..(palen - 1) |-> 0],
        blk |-> [psCap |-> palen, sizesCap |-> palen, psFreed |-> FALSE,
                 sizesFreed |-> FALSE, mpFreed |-> FALSE, lost |-> 0],
        mem |-> <<>>, nmaps |-> 0, acq |-> <<>>, rel |-> <<>>, st |-> "ok"]

\* ClassLoop with the test "p >= sz"
RECURSIVE ClassLoopGE(_, _, _)
ClassLoopGE(i, p, sz) ==
    IF p >= sz THEN [i |-> i, szceil |-> p] ELSE ClassLoopGE(i + 1, p * 2, sz)

\* The class loop of mpool_alloc: for (i=0, p=min_pool; ; i++, p*=2)
\*                                    if (p > sz) { szceil = p; break; }
RECURSIVE ClassLoop(_, _, _)
ClassLoop(i, p, sz) ==
    IF p > sz THEN [i |-> i, szceil |-> p] ELSE ClassLoop(i + 1, p * 2, sz)

\* if (sz >= mp->max_pool): the request bypasses the pools
IsBypass(max_pool, sz) == sz >= max_pool

\* PopHead that leaves the head where it was
PopHeadStuck(hs, i, next) == hs

\* mp->hs[i] = *cur: the pop that ends mpool_alloc
PopHead(hs, i, next) == [hs EXCEPT ![i] = next]

\* alloc_bypass that maps room for a header in front of the request
alloc_bypass_hdr(s, sz, env) ==
    LET g == get_mmap(s, sz + PtrSize, 0, env.m1)
    IN [s |-> g.s, ret |-> g.p]

\* cur = get_mmap(sz); if (cur == NULL) return NULL; return cur;
alloc_bypass(s, sz, env) ==
    LET g == get_mmap(s, sz, 0, env.m1)
    IN [s |-> g.s, ret |-> g.p]

\* assert(*cur > (void *)4096); mp->hs[i] = *cur; return cur;
alloc_pop(s, i) ==
    IF ~(LoadWord(s.mem, s.mp.hs[i]) > AssertFloor)
    THEN [s |-> [s EXCEPT !.st = "aborted"], ret |-> NULL]
    ELSE [s |-> [s EXCEPT !.mp.hs = PopHead(@, i, LoadWord(s.mem, s.mp.hs[i]))],
          ret |-> s.mp.hs[i]]

\* if (add_pool(mp, np, szceil) < 0) return NULL;
alloc_added(a, i) ==
    IF a.rc < 0 THEN [s |-> a.s, ret |-> NULL] ELSE alloc_pop(a.s, i)

\* alloc_chain that leaves the new pool out of the registry
alloc_chain_unreg(s, c, env, n) ==
    IF n.p = NULL THEN [s |-> n.s, ret |-> NULL]
    ELSE alloc_pop([n.s EXCEPT !.mem = StoreWord(@, s.mp.hs[c.i], n.p)], c.i)

\* np = mpool_new_pool(...); if (np == NULL) return NULL; *cur = &np[0];
alloc_chain(s, c, env, n) ==
    IF n.p = NULL THEN [s |-> n.s, ret |-> NULL]
    ELSE alloc_added(add_pool([n.s EXCEPT !.mem = StoreWord(@, s.mp.hs[c.i], n.p)],
                              n.p, c.szceil, env),
                     c.i)

\* With cur = mp->hs[i] not NULL: if (*cur == NULL) attach a new pool.  ok is
\* whether this call's next mmap succeeds.
alloc_head(s, c, env, ok) ==
    IF ~Mapped(s.mem, s.mp.hs[c.i], PtrSize)
    THEN [s |-> [s EXCEPT !.st = "crashed"], ret |-> NULL]
    ELSE IF LoadWord(s.mem, s.mp.hs[c.i]) = NULL
    THEN alloc_chain(s, c, env, mpool_new_pool(s, c.szceil, s.mp.pg_sz, ok))
    ELSE alloc_pop(s, c.i)

\* alloc_lazy that leaves the first pool out of mp->ps and mp->sizes
alloc_lazy_unrec(c, env, n) ==
    IF n.p = NULL THEN [s |-> n.s, ret |-> NULL]
    ELSE alloc_head([n.s EXCEPT !.mp.hs[c.i] = n.p], c, env, env.m2)

\* if (cur == NULL): lazily allocate and initialise the class's first pool
alloc_lazy(c, env, n) ==
    IF n.p = NULL THEN [s |-> n.s, ret |-> NULL]
    ELSE alloc_head([n.s EXCEPT !.ps = SetArr(@, c.i, n.p),
                                !.mp.hs[c.i] = n.p,
                                !.sizes = SetArr(@, c.i, c.szceil)],
                    c, env, env.m2)

alloc_class(s, c, env) ==
    IF s.mp.hs[c.i] = NULL
    THEN alloc_lazy(c, env, mpool_new_pool(s, c.szceil, s.mp.pg_sz, env.m1))
    ELSE alloc_head(s, c, env, env.m1)

mpool_alloc(s, sz, env) ==
    IF IsBypass(s.mp.max_pool, sz)
    THEN alloc_bypass(s, sz, env)
    ELSE alloc_class(s, ClassLoop(0, s.mp.min_pool, sz), env)

\* The free list mpool_repool pushes on: "int i=0" is never assigned again.
RepoolIndex(min_pool, sz) == 0

mpool_repool(s, p, sz) ==
    IF sz > s.mp.max_pool
    THEN [s EXCEPT !.mem = munmap_mem(@, p, sz),
                   !.rel = Append(@, <<p, sz, "repool", munmap_rc(p, sz)>>)]
    ELSE LET szceil == Max(iceil2(sz), s.mp.min_pool)
             i == RepoolIndex(s.mp.min_pool, sz)
         IN IF ~Mapped(s.mem, p, PtrSize) THEN [s EXCEPT !.st = "crashed"]
            ELSE [s EXCEPT !.mem = StoreWord(@, p, s.mp.hs[i]),
                           !.mp.hs[i] = p]

\* CopyLen that stops one byte short
CopyLenShort(old_sz, new_sz) == old_sz - 1

\* memcpy(r, p, old_sz): the number of bytes mpool_realloc copies
CopyLen(old_sz, new_sz) == old_sz

\* realloc_copy that gives p back before it looks at what mpool_alloc returned
realloc_copy_eager(a, p, old_sz, n) ==
    IF a.ret = NULL THEN [s |-> mpool_repool(a.s, p, old_sz), ret |-> NULL]
    ELSE [s |-> mpool_repool([a.s EXCEPT !.mem = CopyBytes(@, a.ret, p, n)],
                             p, old_sz),
          ret |-> a.ret]

\* After r = mpool_alloc(mp, new_sz): a is what it returned.
realloc_copy(a, p, old_sz, n) ==
    IF a.ret = NULL THEN [s |-> a.s, ret |-> NULL]
    ELSE IF ~(Mapped(a.s.mem, a.ret, n) /\ Mapped(a.s.mem, p, n))
         THEN [s |-> [a.s EXCEPT !.st = "crashed"], ret |-> NULL]
    ELSE [s |-> mpool_repool([a.s EXCEPT !.mem = CopyBytes(@, a.ret, p, n)],
                             p, old_sz),
          ret |-> a.ret]

mpool_realloc(s, p, old_sz, new_sz, env) ==
    realloc_copy(mpool_alloc(s, new_sz, env), p, old_sz, CopyLen(old_sz, new_sz))

\* sz = sz >= pgsz ? sz : pgsz
ReleaseSize(sz, pgsz) == IF sz >= pgsz THEN sz ELSE pgsz

\* The loop of mpool_free over ps[0 .. ct-1].
RECURSIVE FreeLoop(_, _)
FreeLoop(s, i) ==
    IF i >= s.mp.ct \/ s.st # "ok" THEN s
    ELSE LET p == s.ps[i]
             sz == s.sizes[i]
             len == ReleaseSize(sz, s.mp.pg_sz)
         IN IF p = NULL THEN FreeLoop(s, i + 1)
            ELSE IF ~(sz > 0) THEN [s EXCEPT !.st = "aborted"]
            ELSE FreeLoop([s EXCEPT
                             !.mem = munmap_mem(@, p, len),
                             !.rel = Append(@, <<p, len, "free", munmap_rc(p, len)>>)],
                          i + 1)

\* After the loop: MPOOL_FREE(mp->ps) and MPOOL_FREE(mp).
mpool_free(s) ==
    LET s1 == FreeLoop(s, 0)
    IN IF s1.st # "ok" THEN s1
       ELSE IF s1.blk.psFreed THEN [s1 EXCEPT !.st = "crashed"]
       ELSE [s1 EXCEPT !.blk.psFreed = TRUE, !.blk.mpFreed = TRUE]

\* ------------------------------------------------------------------------
\* The state machine: one pool set and the client that drives it
\* ------------------------------------------------------------------------
VARIABLES
    mp, ps, sizes, blk,   \* the pool set and its malloc'd blocks
    mem, nmaps,           \* the mapped memory
    acq, rel,             \* every region acquired, every munmap call
    st,                   \* "ok", "aborted", "crashed", or "freed" after mpool_free
    live                  \* the allocations the client holds: a bag of <<pointer, size>>

vars == <<mp, ps, sizes, blk, mem, nmaps, acq, rel, st, live>>

Cur == [mp |-> mp, ps |-> ps, sizes |-> sizes, blk |-> blk, mem |-> mem,
        nmaps |-> nmaps, acq |-> acq, rel |-> rel, st |-> st]

Becomes(s) ==
    /\ mp' = s.mp /\ ps' = s.ps /\ sizes' = s.sizes /\ blk' = s.blk
    /\ mem' = s.mem /\ nmaps' = s.nmaps /\ acq' = s.acq /\ rel' = s.rel
    /\ st' = s.st

Held == BagToSet(live)

Init ==
    /\ mp = mpool_init(MinExp, MaxExp).mp
    /\ ps = mpool_init(MinExp, MaxExp).ps
    /\ sizes = mpool_init(MinExp, MaxExp).sizes
    /\ blk = mpool_init(MinExp, MaxExp).blk
    /\ mem = mpool_init(MinExp, MaxExp).mem
    /\ nmaps = 0 /\ acq = <<>> /\ rel = <<>> /\ st = "ok"
    /\ live = EmptyBag

\* ip = mpool_alloc(mp, sz); the client then writes its sz bytes (test.c: *ip = 7)
ClientWrite(s, p, sz) ==
    IF p = NULL \/ s.st # "ok" THEN s
    ELSE IF ~Mapped(s.mem, p, sz) THEN [s EXCEPT !.st = "crashed"]
    ELSE [s EXCEPT !.mem = FillBytes(@, p, sz)]

AllocDone(a, sz, fails) ==
    /\ BagCardinality(live) < MaxLive
    /\ a.s.nmaps <= MaxMaps
    /\ fails => a.ret = NULL
    /\ Becomes(ClientWrite(a.s, a.ret, sz))
    /\ live' = IF a.ret = NULL THEN live ELSE live (+) SetToBag({<<a.ret, sz>>})

AllocWith(sz, env, fails) == AllocDone(mpool_alloc(Cur, sz, env), sz, fails)

Alloc ==
    /\ st = "ok"
    /\ \E sz \in ReqSizes : AllocWith(sz, EnvOK, FALSE)

\* a mpool_alloc that returns NULL
AllocFail ==
    /\ st = "ok"
    /\ \E sz \in ReqSizes, env \in FailuresAt(mp.ct, mp.pal) :
          AllocWith(sz, env, TRUE)

\* mpool_repool(mp, p, sz) with the size p was allocated with
Repool ==
    /\ st = "ok"
    /\ \E e \in Held :
          /\ Becomes(mpool_repool(Cur, e[1], e[2]))
          /\ live' = live (-) SetToBag({e})

\* r = mpool_realloc(mp, p, old_sz, new_sz), with the environment env
ReallocDone(a, e, nsz, fails) ==
    /\ a.s.nmaps <= MaxMaps
    /\ fails => a.ret = NULL
    /\ Becomes(a.s)
    /\ live' = IF a.ret = NULL THEN live
               ELSE (live (-) SetToBag({e})) (+) SetToBag({<<a.ret, nsz>>})

ReallocWith(e, nsz, env, fails) ==
    ReallocDone(mpool_realloc(Cur, e[1], e[2], nsz, env), e, nsz, fails)

Realloc ==
    /\ st = "ok"
    /\ \E e \in Held, nsz \in ReqSizes : ReallocWith(e, nsz, EnvOK, FALSE)

\* a mpool_realloc that returns NULL
ReallocFail ==
    /\ st = "ok"
    /\ \E e \in Held, nsz \in ReqSizes, env \in FailuresAt(mp.ct, mp.pal) :
          ReallocWith(e, nsz, env, TRUE)

\* mpool_free(mp)
Freed(s) == [s EXCEPT !.st = IF @ = "ok" THEN "freed" ELSE @]

Free ==
    /\ st = "ok"
    /\ Becomes(Freed(mpool_free(Cur)))
    /\ UNCHANGED live

\* Runs in which no request for memory fails.
Next == Alloc \/ Repool \/ Realloc \/ Free

Spec == Init /\ [][Next]_vars

\* Runs of mpool_alloc and mpool_repool alone, no request for memory failing.
NextAR == Alloc \/ Repool

SpecAR == Init /\ [][NextAR]_vars

\* Runs in which a mpool_realloc may fail.
NextResizeFail == Alloc \/ Repool \/ ReallocFail

SpecResizeFail == Init /\ [][NextResizeFail]_vars

\* Runs in which mmap and realloc may fail in any call.
NextFail == Alloc \/ AllocFail \/ Repool \/ Realloc \/ ReallocFail \/ Free

SpecFail == Init /\ [][NextFail]_vars

\* The environments in which a mmap of the call fails and realloc does not.
EnvMapFail == {env \in EnvFail : ~env.m1 \/ ~env.m2}

\* a mpool_alloc that returns NULL because a mmap of the call failed
AllocMapFail ==
    /\ st = "ok"
    /\ \E sz \in ReqSizes, env \in EnvMapFail : AllocWith(sz, env, TRUE)

\* Runs of mpool_alloc and mpool_repool in which mmap may fail.
NextMapFail == Alloc \/ AllocMapFail \/ Repool

SpecMapFail == Init /\ [][NextMapFail]_vars

\* The pool sets mpool_init builds for the class exponents it accepts
\* (assert(ct > 0): max2 >= min2), down to min2 = 0, and the requests of a
\* client that also asks for fewer bytes than a pointer has.
InitExps == {<<min2, max2>> \in (0..MinExp) \X (0..MaxExp) : max2 >= min2}
SmallReqSizes == {0, 1, PtrSize} \cup ReqSizes

InitOf(s) ==
    /\ mp = s.mp /\ ps = s.ps /\ sizes = s.sizes /\ blk = s.blk /\ mem = s.mem
    /\ nmaps = 0 /\ acq = <<>> /\ rel = <<>> /\ st = "ok"
    /\ live = EmptyBag

InitAny == \E e \in InitExps : InitOf(mpool_init(e[1], e[2]))

AllocSmall ==
    /\ st = "ok"
    /\ \E sz \in SmallReqSizes : AllocWith(sz, EnvOK, FALSE)

\* Runs of mpool_alloc and mpool_repool on any pool set mpool_init builds.
NextAny == AllocSmall \/ Repool

SpecAny == InitAny /\ [][NextAny]_vars

\* ------------------------------------------------------------------------
\* The earlier mpool.c, built with LG_POOL_AUTO = 1: mpool_init maps every
\* class's first pool, mpool_alloc registers bypass regions with add_pool,
\* mpool_repool looks a region's registry entry up to mark it, and
\* mpool_free skips the marked entries.  It runs on the same state record.
\* The pool set is built by mpool_init(2, 2), which keeps max_pool below the
\* page size as the test driver's mpool_init(4, 11) does with 4096-byte
\* pages: requests lie below max_pool, at max_pool, between max_pool and a
\* page, and above a page.
\* ------------------------------------------------------------------------
AutoMinExp == 2
AutoMaxExp == 2
AutoReqSizes == {Pow2(AutoMinExp) - 1, Pow2(AutoMaxExp), PageSize, PageSize + 1}

\* palen = pow(2, ceil(log2(ct)))
RECURSIVE auto_palen(_, _)
auto_palen(ct, p) == IF p >= ct THEN p ELSE auto_palen(ct, 2 * p)

\* new_pool(sz, totalsz): get_mmap(totalsz), then the cells are linked
auto_new_pool(s, sz, totalsz) ==
    new_pool_cells(s, get_mmap(s, totalsz, sz, TRUE), sz, totalsz \div sz)

\* add_pool: the arrays are replaced by malloc'd blocks of twice the length
auto_add_pool(s, p, sz) ==
    LET grow == s.mp.ct = s.mp.pal
        pal2 == IF grow THEN 2 * s.mp.pal ELSE s.mp.pal
        cap2 == (pal2 * PtrSize) \div IntSize
    IN [s EXCEPT !.mp.pal = pal2,
                 !.mp.ct = @ + 1,
                 !.ps = SetArr(IF grow THEN GrowArr(@, pal2) ELSE @, s.mp.ct, p),
                 !.sizes = SetArr(IF grow THEN GrowArr(@, cap2) ELSE @, s.mp.ct, sz),
                 !.blk.psCap = IF grow THEN pal2 ELSE @,
                 !.blk.sizesCap = IF grow THEN cap2 ELSE @]

\* One round of mpool_init's loop: n is what new_pool returned.
auto_init_pool(n, i, sz) ==
    [n.s EXCEPT !.ps = SetArr(@, i, n.p),
                !.mp.hs = SetArr(@, i, n.p),
                !.sizes = SetArr(@, i, sz)]

\* for (i=0; i<ct; i++) { sz = (1 << (i + min2)); p = new_pool(sz, pgsz); ... }
RECURSIVE auto_init_loop(_, _, _)
auto_init_loop(s, i, min2) ==
    IF i >= s.mp.ct \/ s.st # "ok" THEN s
    ELSE auto_init_loop(auto_init_pool(auto_new_pool(s, Pow2(i + min2), s.mp.pg_sz),
                                       i, Pow2(i + min2)),
                        i + 1, min2)

\* mpool_init before its loop: malloc leaves the arrays uninitialised
auto_init_blocks(ct, palen, min2, max2) ==
    [mp |-> [ct |-> ct, pal |-> palen, pg_sz |-> PageSize,
             min_pool |-> Pow2(min2), max_pool |-> Pow2(max2),
             hs |-> [i \in 0..(ct - 1) |-> Junk]],
     ps |-> [i \in 0..(palen - 1) |-> Junk],
     sizes |-> [i \in 0..(palen - 1) |-> Junk],
     blk |-> [psCap |-> palen, sizesCap |-> palen, psFreed |-> FALSE,
              sizesFreed |-> FALSE, mpFreed |-> FALSE, lost |-> 0],
     mem |-> <<>>, nmaps |-> 0, acq |-> <<>>, rel |-> <<>>, st |-> "ok"]

auto_mpool_init(min2, max2) ==
    auto_init_loop(auto_init_blocks(max2 - min2 + 1,
                                    auto_palen(max2 - min2 + 1, 1), min2, max2),
                   0, min2)

\* The loop of mpool_free: entries of size 0 are skipped, a failing munmap
\* ends the program with err().
RECURSIVE auto_free_loop(_, _)
auto_free_loop(s, i) ==
    IF i >= s.mp.ct \/ s.st # "ok" THEN s
    ELSE IF ~(s.sizes[i] > 0) THEN auto_free_loop(s, i + 1)
    ELSE IF munmap_rc(s.ps[i], ReleaseSize(s.sizes[i], s.mp.pg_sz)) # 0
    THEN [s EXCEPT !.st = "aborted",
                   !.rel = Append(@, <<s.ps[i], ReleaseSize(s.sizes[i], s.mp.pg_sz),
                                       "free", 0 - 1>>)]
    ELSE auto_free_loop(
            [s EXCEPT !.mem = munmap_mem(@, s.ps[i], ReleaseSize(s.sizes[i], s.mp.pg_sz)),
                      !.rel = Append(@, <<s.ps[i], ReleaseSize(s.sizes[i], s.mp.pg_sz),
                                          "free", 0>>)],
            i + 1)

\* After the loop: free(mp->ps); free(mp);
auto_freed(s) ==
    IF s.st # "ok" THEN s
    ELSE [s EXCEPT !.blk.psFreed = TRUE, !.blk.mpFreed = TRUE]

auto_mpool_free(s) == auto_freed(auto_free_loop(s, 0))

\* After the mmap of a bypass request: if (LG_POOL_AUTO) add_pool(mp, cur, sz)
auto_alloc_bypass(g, sz) == [s |-> auto_add_pool(g.s, g.p, sz), ret |-> g.p]

\* assert(*cur); mp->hs[i] = *cur; return cur;
auto_alloc_pop(s, i) ==
    IF LoadWord(s.mem, s.mp.hs[i]) = NULL
    THEN [s |-> [s EXCEPT !.st = "aborted"], ret |-> NULL]
    ELSE [s |-> [s EXCEPT !.mp.hs = PopHead(@, i, LoadWord(s.mem, s.mp.hs[i]))],
          ret |-> s.mp.hs[i]]

\* np = new_pool(szceil, mp->pg_sz); *cur = &np[0]; add_pool(mp, np, szceil);
auto_alloc_chain(s, c, n) ==
    auto_alloc_pop(auto_add_pool([n.s EXCEPT !.mem = StoreWord(@, s.mp.hs[c.i], n.p)],
                                 n.p, c.szceil),
                   c.i)

\* cur = mp->hs[i]; assert(cur); if (*cur == NULL) attach a new pool
auto_alloc_class(s, c) ==
    IF s.mp.hs[c.i] = NULL THEN [s |-> [s EXCEPT !.st = "aborted"], ret |-> NULL]
    ELSE IF ~Mapped(s.mem, s.mp.hs[c.i], PtrSize)
    THEN [s |-> [s EXCEPT !.st = "crashed"], ret |-> NULL]
    ELSE IF LoadWord(s.mem, s.mp.hs[c.i]) = NULL
    THEN auto_alloc_chain(s, c, auto_new_pool(s, c.szceil, s.mp.pg_sz))
    ELSE auto_alloc_pop(s, c.i)

auto_mpool_alloc(s, sz) ==
    IF IsBypass(s.mp.max_pool, sz)
    THEN auto_alloc_bypass(get_mmap(s, sz, 0, TRUE), sz)
    ELSE auto_alloc_class(s, ClassLoop(0, s.mp.min_pool, sz))

\* for (i=mp->ct-1; i>=0; i--): the entry whose region holds p, or -1
RECURSIVE auto_lookup(_, _, _)
auto_lookup(s, p, i) ==
    IF i < 0 THEN i
    ELSE IF /\ p >= s.ps[i]
            /\ p < s.ps[i] + (IF s.sizes[i] <= s.mp.max_pool THEN s.mp.pg_sz
                              ELSE s.sizes[i])
         THEN i
         ELSE auto_lookup(s, p, i - 1)

\* if (sz == -1 || (LG_POOL_AUTO && sz > pgsz)): whether the entry is looked up
auto_looks_up(sz, pgsz) == sz = 0 - 1 \/ sz > pgsz

\* for (i=0, e=mp->min_pool; e<=mp->max_pool; i++, e*=2) if (e > sz) break;
RECURSIVE auto_repool_index(_, _, _, _)
auto_repool_index(i, e, max_pool, sz) ==
    IF e > max_pool \/ e > sz THEN i
    ELSE auto_repool_index(i + 1, 2 * e, max_pool, sz)

\* *ip = mp->hs[i]; mp->hs[i] = ip.  With i = ct the head lies behind the
\* block of mp: the store lands there (oob = "lands") or faults.
auto_push(s, p, i, oob) ==
    IF ~Mapped(s.mem, p, PtrSize) THEN [s EXCEPT !.st = "crashed"]
    ELSE IF i \in DOMAIN s.mp.hs
    THEN [s EXCEPT !.mem = StoreWord(@, p, s.mp.hs[i]), !.mp.hs[i] = p]
    ELSE IF oob = "lands"
    THEN [s EXCEPT !.mem = StoreWord(@, p, Junk), !.mp.hs = SetArr(@, i, p)]
    ELSE [s EXCEPT !.st = "crashed"]

\* if (munmap(p, sz) == -1) err(1, "munmap(2)"); mp->sizes[i] = 0;
auto_unmap(s, p, sz, i, oob) ==
    IF munmap_rc(p, sz) # 0
    THEN [s EXCEPT !.st = "aborted", !.rel = Append(@, <<p, sz, "repool", 0 - 1>>)]
    ELSE IF i \notin DOMAIN s.sizes /\ oob # "lands"
    THEN [s EXCEPT !.st = "crashed"]
    ELSE [s EXCEPT !.mem = munmap_mem(@, p, sz),
                   !.rel = Append(@, <<p, sz, "repool", 0>>),
                   !.sizes = SetArr(@, i, 0)]

\* mpool_repool once i and sz are settled
auto_repool_at(s, p, sz, i, oob) ==
    IF ~(sz > 0) THEN [s EXCEPT !.st = "aborted"]
    ELSE IF sz > s.mp.max_pool THEN auto_unmap(s, p, sz, i, oob)
    ELSE auto_push(s, p, auto_repool_index(0, s.mp.min_pool, s.mp.max_pool, sz), oob)

\* After the lookup: i is the entry found, or -1
auto_repool_found(s, p, sz, i, oob) ==
    auto_repool_at(s, p, IF i >= 0 THEN s.sizes[i] ELSE sz, i, oob)

auto_mpool_repool(s, p, sz, oob) ==
    IF auto_looks_up(sz, s.mp.pg_sz)
    THEN auto_repool_found(s, p, sz, auto_lookup(s, p, s.mp.ct - 1), oob)
    ELSE auto_repool_at(s, p, sz, 0, oob)

InitAuto ==
    /\ mp = auto_mpool_init(AutoMinExp, AutoMaxExp).mp
    /\ ps = auto_mpool_init(AutoMinExp, AutoMaxExp).ps
    /\ sizes = auto_mpool_init(AutoMinExp, AutoMaxExp).sizes
    /\ blk = auto_mpool_init(AutoMinExp, AutoMaxExp).blk
    /\ mem = auto_mpool_init(AutoMinExp, AutoMaxExp).mem
    /\ nmaps = auto_mpool_init(AutoMinExp, AutoMaxExp).nmaps
    /\ acq = auto_mpool_init(AutoMinExp, AutoMaxExp).acq
    /\ rel = <<>> /\ st = "ok"
    /\ live = EmptyBag

AutoAlloc ==
    /\ st = "ok"
    /\ \E sz \in AutoReqSizes : AllocDone(auto_mpool_alloc(Cur, sz), sz, FALSE)

AutoRepool ==
    /\ st = "ok"
    /\ \E e \in Held, oob \in {"lands", "faults"} :
          /\ Becomes(auto_mpool_repool(Cur, e[1], e[2], oob))
          /\ live' = live (-) SetToBag({e})

AutoFree ==
    /\ st = "ok"
    /\ Becomes(Freed(auto_mpool_free(Cur)))
    /\ UNCHANGED live

NextAuto == AutoAlloc \/ AutoRepool \/ AutoFree

SpecAuto == InitAuto /\ [][NextAuto]_vars

\* ------------------------------------------------------------------------
\* Vocabulary of the properties
\* ------------------------------------------------------------------------
Classes == 0..(MaxExp - MinExp)
ClassSize(i) == Pow2(MinExp + i)

\* The size class the specification gives a request of sz < maxClassSize
\* bytes: the smallest i with 2^(minClassExp + i) > sz.
SpecClass(sz) ==
    CHOOSE i \in 0..(MaxExp - MinExp + 1) :
        /\ ClassSize(i) > sz
        /\ \A j \in 0..(i - 1) : ClassSize(j) <= sz

\* The cells of a free list, from its head along the first-word links.
RECURSIVE Chain(_, _, _)
Chain(m, a, fuel) ==
    IF a = NULL \/ fuel = 0 \/ ~Mapped(m, a, PtrSize) THEN <<>>
    ELSE <<a>> \o Chain(m, LoadWord(m, a), fuel - 1)

FreeList(s, i) == Chain(s.mem, s.mp.hs[i], Cardinality(DOMAIN s.mem))
FreeCells(s) ==
    UNION {{FreeList(s, i)[k] : k \in 1..Len(FreeList(s, i))} : i \in DOMAIN s.mp.hs}

Disjoint(a, n, b, k) == a + n <= b \/ b + k <= a

Pooled(sz) == sz < mp.max_pool
InRange(sz) == mp.min_pool <= sz /\ sz < mp.max_pool

\* ------------------------------------------------------------------------
\* C1
\* ------------------------------------------------------------------------
AllocIsSound(a, sz) ==
    /\ a.ret # NULL
    /\ a.s.st = "ok"
    /\ Mapped(a.s.mem, a.ret, sz)
    /\ \A e \in Held : Disjoint(a.ret, sz, e[1], e[2])
    /\ \A c \in FreeCells(a.s) : Disjoint(a.ret, sz, c, PtrSize)

\* C1: in every state reached by mpool_alloc and mpool_repool calls with
\* matching sizes and no failing mmap, every mpool_alloc(sz) with
\* min_pool <= sz < max_pool returns a non-null pointer to sz mapped bytes
\* that overlap no allocation the client holds and no link word of a free
\* cell, and no allocation is held twice.
C1_AllocDisjoint ==
    st = "ok" =>
        /\ \A e \in Held : CopiesIn(e, live) = 1
        /\ \A e1, e2 \in Held : e1 # e2 => Disjoint(e1[1], e1[2], e2[1], e2[2])
        /\ \A sz \in ReqSizes :
              InRange(sz) => AllocIsSound(mpool_alloc(Cur, sz, EnvOK), sz)

\* Two allocations of sizes in the range are held at once.
C1_Witness ==
    /\ st = "ok"
    /\ \E e1, e2 \in Held : e1 # e2 /\ InRange(e1[2]) /\ InRange(e2[2])

\* ------------------------------------------------------------------------
\* C2
\* ------------------------------------------------------------------------
RepoolThenAlloc(e, sz2) ==
    mpool_alloc(mpool_repool(Cur, e[1], e[2]), sz2, EnvOK)

\* C2: for every held pointer p of a pooled size sz and every size sz2 of
\* the same class, mpool_repool(p, sz) followed by mpool_alloc(sz2) returns p.
C2_LifoReuse ==
    st = "ok" =>
        \A e \in Held, sz2 \in ReqSizes :
            (Pooled(e[2]) /\ Pooled(sz2) /\ SpecClass(sz2) = SpecClass(e[2]))
                => RepoolThenAlloc(e, sz2).ret = e[1]

\* ------------------------------------------------------------------------
\* C3
\* ------------------------------------------------------------------------
\* The allocation a, made in the current state, came from free list i.
ServedFrom(a, i) ==
    /\ i \in DOMAIN mp.hs
    /\ IF mp.hs[i] # NULL THEN a.ret = mp.hs[i]
       ELSE /\ a.ret = Base(nmaps + 1)
            /\ a.s.acq[nmaps + 1][3] = ClassSize(i)
    /\ a.s.mp.hs[i] = LoadWord(a.s.mem, a.ret)
    /\ \A j \in DOMAIN mp.hs : j # i => a.s.mp.hs[j] = mp.hs[j]

AllocFollowsRule(a, sz) ==
    (a.ret # NULL /\ a.s.st = "ok") => ServedFrom(a, SpecClass(sz))

\* C3: every successful mpool_alloc(sz) with sz < max_pool pops the free
\* list of the smallest class i with 2^(min2 + i) > sz, and 0 <= i < classCount.
C3_ClassRule ==
    st = "ok" =>
        \A sz \in ReqSizes :
            Pooled(sz) => /\ SpecClass(sz) \in Classes
                          /\ AllocFollowsRule(mpool_alloc(Cur, sz, EnvOK), sz)

\* A request of exactly min_pool bytes is held in a cell of the next class up.
C3_Witness ==
    /\ st = "ok"
    /\ \E e \in Held, k \in 1..Len(acq) :
          /\ e[2] = mp.min_pool
          /\ acq[k][3] = 2 * mp.min_pool
          /\ ~Disjoint(e[1], e[2], acq[k][1], acq[k][2])

\* ------------------------------------------------------------------------
\* C4
\* ------------------------------------------------------------------------
BypassIsFresh(a, sz) ==
    /\ a.ret # NULL
    /\ a.s.st = "ok"
    /\ a.s.acq = Append(acq, <<a.ret, sz, 0>>)
    /\ Mapped(a.s.mem, a.ret, sz)
    /\ ~(\E x \in DOMAIN mem : x \in a.ret..(a.ret + sz - 1))
    /\ \A k \in 1..Len(acq) : Disjoint(a.ret, sz, acq[k][1], acq[k][2])
    /\ a.s.mp.hs = mp.hs
    /\ \A x \in DOMAIN mem : a.s.mem[x] = mem[x]

\* C4: every mpool_alloc(sz) with sz >= max_pool maps a fresh region of
\* exactly sz bytes, apart from every region mapped before, returns its base,
\* and changes no free-list head and no byte of the memory mapped before.
C4_Bypass ==
    st = "ok" =>
        \A sz \in ReqSizes :
            ~Pooled(sz) => BypassIsFresh(mpool_alloc(Cur, sz, EnvOK), sz)

\* A bypass allocation is held while a size class has an arena.
C4_Witness ==
    /\ st = "ok"
    /\ \E e \in Held : ~Pooled(e[2])
    /\ \E k \in 1..Len(acq) : acq[k][3] # 0

\* ------------------------------------------------------------------------
\* C5
\* ------------------------------------------------------------------------
BypassIsReleased(s, e) ==
    /\ s.rel = Append(rel, <<e[1], e[2], "repool", 0>>)
    /\ ~(\E x \in DOMAIN s.mem : x \in e[1]..(e[1] + e[2] - 1))
    /\ s.mp.hs = mp.hs

\* C5: mpool_repool(p, sz) of a held bypass allocation (sz >= max_pool,
\* sz = max_pool included) unmaps p and pushes it on no free list.
C5_BypassReleased ==
    st = "ok" =>
        \A e \in Held :
            ~Pooled(e[2]) => BypassIsReleased(mpool_repool(Cur, e[1], e[2]), e)

\* ------------------------------------------------------------------------
\* C6
\* ------------------------------------------------------------------------
CycleRuns == 3

\* p = mpool_alloc(mp, sz); mpool_repool(mp, p, sz);
AllocRepool(a, sz) == IF a.ret = NULL THEN a.s ELSE mpool_repool(a.s, a.ret, sz)

RECURSIVE Cycles(_, _, _)
Cycles(s, sz, n) ==
    IF n = 0 THEN s
    ELSE Cycles(AllocRepool(mpool_alloc(s, sz, EnvOK), sz), sz, n - 1)

\* C6: for every pooled size, the arenas built by N allocate/repool cycles
\* are those the first cycle builds: cycles 2..N build none.
C6_CyclesBuildOnce ==
    st = "ok" =>
        \A sz \in ReqSizes :
            Pooled(sz) =>
                Cycles(Cur, sz, CycleRuns).nmaps = Cycles(Cur, sz, 1).nmaps

\* ------------------------------------------------------------------------
\* C7
\* ------------------------------------------------------------------------
\* p is back with the allocator: on a free list, or unmapped.
GivenBack(s, p) == p \in FreeCells(s) \/ p \notin DOMAIN s.mem

GrowKeeps(a, e, nsz) ==
    a.ret # NULL =>
    /\ a.ret # e[1]
    /\ Mapped(a.s.mem, a.ret, nsz)
    /\ \A j \in 0..(e[2] - 1) : a.s.mem[a.ret + j] = mem[e[1] + j]
    /\ GivenBack(a.s, e[1])
    /\ a.ret \notin FreeCells(a.s)
    /\ \A h \in Held \ {e} : Disjoint(a.ret, nsz, h[1], h[2])

\* C7: for every held pointer p of size oldSz and every newSz > oldSz, a
\* mpool_realloc(p, oldSz, newSz) that returns r # NULL returns r # p with
\* newSz mapped bytes whose first oldSz bytes are those p held before the
\* call; afterwards p is on a free list or unmapped, and r is on no free list
\* and overlaps no other held allocation.
C7_GrowKeepsContents ==
    st = "ok" =>
        \A e \in Held, nsz \in ReqSizes :
            nsz > e[2] => GrowKeeps(mpool_realloc(Cur, e[1], e[2], nsz, EnvOK), e, nsz)

\* A held allocation whose first byte is client data and whose last byte was
\* never written: it was grown by mpool_realloc.
C7_Witness ==
    /\ st = "ok"
    /\ \E e \in Held : /\ Mapped(mem, e[1], e[2])
                       /\ mem[e[1]] = Data
                       /\ mem[e[1] + e[2] - 1] = 0

\* ------------------------------------------------------------------------
\* C8
\* ------------------------------------------------------------------------
FailKeeps(a, e) ==
    (a.ret = NULL /\ a.s.st = "ok") =>
    /\ Mapped(a.s.mem, e[1], e[2])
    /\ \A j \in 0..(e[2] - 1) : a.s.mem[e[1] + j] = mem[e[1] + j]
    /\ e[1] \notin FreeCells(a.s)
    /\ a.s.rel = rel

\* C8: whenever mpool_realloc(p, oldSz, newSz) returns NULL because its
\* mpool_alloc did, p is still mapped, its oldSz bytes are what they were, p
\* is on no free list and no region has been unmapped.
C8_FailedResizeKeeps ==
    st = "ok" =>
        \A e \in Held, nsz \in ReqSizes, env \in FailuresAt(mp.ct, mp.pal) :
            FailKeeps(mpool_realloc(Cur, e[1], e[2], nsz, env), e)

\* The client holds an allocation after a mpool_realloc failed in add_pool:
\* mp->pal was doubled and a block was not grown, or a grown block was lost.
C8_Witness ==
    /\ st = "ok"
    /\ Held # {}
    /\ \/ mp.pal > blk.psCap
       \/ mp.pal > blk.sizesCap
       \/ blk.lost > 0
    /\ \A e \in Held : Mapped(mem, e[1], e[2]) /\ mem[e[1]] = Data

\* ------------------------------------------------------------------------
\* C9
\* ------------------------------------------------------------------------
Registered == {ps[i] : i \in (0..(mp.ct - 1)) \cap DOMAIN ps} \ {NULL}

\* The munmap calls mpool_free made of the region at p.
FreeCalls(p) == {k \in 1..Len(rel) : rel[k][3] = "free" /\ rel[k][1] = p}

\* The byte sizes with which the region at p was acquired, page-rounded.
AcquiredSizes(p) == {PageRound(acq[k][2]) : k \in {j \in 1..Len(acq) : acq[j][1] = p}}

\* C9: after mpool_free every registered arena has been unmapped by exactly
\* one call, whose size is the size the arena was acquired with, every such
\* call succeeded, and mpool_free unmapped nothing that is not registered.
C9_TeardownReleasesAll ==
    st = "freed" =>
        /\ \A p \in Registered :
              /\ Cardinality(FreeCalls(p)) = 1
              /\ \A k \in FreeCalls(p) : /\ AcquiredSizes(p) = {rel[k][2]}
                                         /\ rel[k][4] = 0
        /\ \A k \in 1..Len(rel) : rel[k][3] = "free" => rel[k][1] \in Registered

\* ------------------------------------------------------------------------
\* C10
\* ------------------------------------------------------------------------
\* The arenas built for size classes that hold the cell at address c.
ArenasOf(c) ==
    {acq[k][1] : k \in {j \in 1..Len(acq) :
                          /\ acq[j][3] # 0
                          /\ c \in acq[j][1]..(acq[j][1] + PageRound(acq[j][2]) - 1)}}

\* C10: in every state a failed mpool_alloc or mpool_realloc can leave, every
\* size-class arena with a cell on a free list is registered in mp->ps.
C10_LinkedIsRegistered ==
    st = "ok" =>
        \A c \in FreeCells(Cur) : ArenasOf(c) \subseteq Registered

\* ------------------------------------------------------------------------
\* C11
\* ------------------------------------------------------------------------
\* The munmap calls made on the region at p.
UnmapCalls(p) == {j \in 1..Len(rel) : rel[j][1] = p}

\* The k-th region acquired was unmapped once, whole, at the right place:
\* at its repool when it is a bypass region the client gave back, by
\* mpool_free otherwise.
UnmappedOnce(k) ==
    /\ Cardinality(UnmapCalls(acq[k][1])) = 1
    /\ \A j \in UnmapCalls(acq[k][1]) :
          /\ rel[j][4] = 0
          /\ PageRound(rel[j][2]) = PageRound(acq[k][2])
          /\ rel[j][3] = IF acq[k][3] = 0 /\ \A e \in Held : e[1] # acq[k][1]
                         THEN "repool" ELSE "free"

\* The registry entries marked with size 0 are those of the bypass regions
\* the client gave back.
MarkedOwn ==
    \A i \in 0..(mp.ct - 1) :
        sizes[i] = 0 <=> \E k \in 1..Len(acq) : /\ acq[k][1] = ps[i]
                                                /\ acq[k][3] = 0
                                                /\ \A e \in Held : e[1] # ps[i]

\* C11: with LG_POOL_AUTO = 1, after mpool_alloc and matching mpool_repool
\* calls and mpool_free, every region mmap handed out has been unmapped by
\* exactly one munmap call: a bypass region the client repooled by that
\* repool, whose own registry entry (and no other) is marked with size 0,
\* every other region by mpool_free.
C11_AutoUnmapsOnce ==
    st = "freed" => /\ \A k \in 1..Len(acq) : UnmappedOnce(k)
                    /\ MarkedOwn

\* ------------------------------------------------------------------------
\* C12
\* ------------------------------------------------------------------------
\* In state s, reached by a push of p, p heads free list i and links to the
\* head the list had before; nothing else of the pool set has changed.
PushedOn(s, p, i) ==
    /\ s.st = "ok"
    /\ s.mp.hs[i] = p
    /\ LoadWord(s.mem, p) = mp.hs[i]
    /\ \A j \in DOMAIN mp.hs : j # i => s.mp.hs[j] = mp.hs[j]
    /\ s.ps = ps /\ s.sizes = sizes /\ s.mp.ct = mp.ct

\* C12: for every held pointer p of a size sz below max_pool,
\* mpool_repool(p, sz) pushes p on the free list of the class mpool_alloc
\* serves sz from: it stores the old head of that list in p's first word,
\* makes p the head, and changes no other head, no registry entry and not
\* the registry's count.
C12_RepoolPushesOnClass ==
    st = "ok" =>
        \A e \in Held :
            Pooled(e[2]) =>
                PushedOn(mpool_repool(Cur, e[1], e[2]), e[1], SpecClass(e[2]))

\* ------------------------------------------------------------------------
\* C13
\* ------------------------------------------------------------------------
\* ra is what mpool_realloc returned and al what its mpool_alloc returned:
\* the first n bytes at r are p's, and apart from them and from the link
\* mpool_repool stores in p, memory is what mpool_alloc left.
CopiedOnly(ra, al, p, n) ==
    al.ret # NULL =>
        /\ ra.ret = al.ret
        /\ ra.s.st = "ok"
        /\ \A j \in 0..(n - 1) : ra.s.mem[ra.ret + j] = mem[p + j]
        /\ \A x \in DOMAIN ra.s.mem :
              (x \notin ra.ret..(ra.ret + n - 1) /\ x \notin p..(p + PtrSize - 1))
                  => ra.s.mem[x] = al.s.mem[x]

\* C13: for every held pointer p of size oldSz and every newSz, a
\* mpool_realloc whose mpool_alloc succeeds copies min(oldSz, newSz) bytes of
\* p to the new cell and writes nothing else but the link of the repooled p:
\* no byte behind the copy, of another held cell or of a free cell changes.
C13_CopiesMin ==
    st = "ok" =>
        \A e \in Held, nsz \in ReqSizes :
            CopiedOnly(mpool_realloc(Cur, e[1], e[2], nsz, EnvOK),
                       mpool_alloc(Cur, nsz, EnvOK), e[1],
                       IF e[2] <= nsz THEN e[2] ELSE nsz)

\* ------------------------------------------------------------------------
\* C14
\* ------------------------------------------------------------------------
RECURSIVE IsPow2(_)
IsPow2(n) == n = 1 \/ (n > 1 /\ n % 2 = 0 /\ IsPow2(n \div 2))

\* C14: in every state reached by mpool_alloc, mpool_repool and
\* mpool_realloc calls, failed ones included, mp->ct <= mp->pal, mp->pal is a
\* power of two not below the number of classes, and the blocks mp->ps and
\* mp->sizes point to are allocated and have room for mp->pal slots each, so
\* that a store to slot mp->ct < mp->pal stays inside them.  (The claim asks
\* for exactly mp->pal slots; room for at least mp->pal is what it needs.)
C14_CapacityMatches ==
    st = "ok" =>
        /\ mp.ct <= mp.pal
        /\ IsPow2(mp.pal)
        /\ mp.pal >= Cardinality(Classes)
        /\ blk.psCap >= mp.pal /\ ~blk.psFreed
        /\ blk.sizesCap >= mp.pal /\ ~blk.sizesFreed

\* ------------------------------------------------------------------------
\* C15
\* ------------------------------------------------------------------------
\* Address a lies in a region the registry records.
InRegistered(a) ==
    \E j \in (0..(mp.ct - 1)) \cap DOMAIN ps \cap DOMAIN sizes :
        /\ ps[j] # NULL
        /\ a >= ps[j]
        /\ a < ps[j] + ReleaseSize(sizes[j], mp.pg_sz)

\* C15: in every state reached by mpool_alloc, mpool_repool and
\* mpool_realloc calls with matching sizes, every mp->hs[i] is NULL or an
\* address inside a region recorded in mp->ps.
C15_HeadsInArenas ==
    st = "ok" => \A i \in DOMAIN mp.hs : mp.hs[i] = NULL \/ InRegistered(mp.hs[i])

\* ------------------------------------------------------------------------
\* C16
\* ------------------------------------------------------------------------
\* The total sizes mpool_new_pool is tried with: a page, as mpool_alloc
\* passes it, and two pages.
NewPoolTotals == {PageSize, 2 * PageSize}

\* The cells met from the base of the pool n, following first-word links.
PoolCells(n) == Chain(n.s.mem, n.p, Cardinality(DOMAIN n.s.mem))

\* The pool n, built in the current state, is a region of max(sz, total_sz)
\* bytes holding a list of `cells` cells that starts at its base, runs
\* through consecutive multiples of sz inside the region and ends with NULL.
PoolOf(n, sz, total_sz, cells) ==
    /\ n.p # NULL
    /\ n.s.st = "ok"
    /\ n.s.acq = Append(acq, <<n.p, Max(sz, total_sz), sz>>)
    /\ Len(PoolCells(n)) = cells
    /\ \A k \in 1..Len(PoolCells(n)) :
          /\ PoolCells(n)[k] = n.p + (k - 1) * sz
          /\ PoolCells(n)[k] + sz <= n.p + Max(sz, total_sz)
          /\ LoadWord(n.s.mem, PoolCells(n)[k]) =
                IF k = Len(PoolCells(n)) THEN NULL ELSE n.p + k * sz
    /\ \A x \in DOMAIN mem : n.s.mem[x] = mem[x]

\* A failed mpool_new_pool returns NULL and leaves the state as it was.
PoolFails(n) == n.p = NULL /\ n.s = Cur

\* C16 as claimed: a successful mpool_new_pool(sz, total_sz) maps
\* max(sz, total_sz) bytes and leaves a list of exactly
\* floor(total_sz / sz) cells; a failed one writes nothing.
C16_PoolCellsFloor ==
    st = "ok" =>
        \A c \in Classes, tot \in NewPoolTotals :
            /\ PoolOf(mpool_new_pool(Cur, ClassSize(c), tot, TRUE),
                      ClassSize(c), tot, tot \div ClassSize(c))
            /\ PoolFails(mpool_new_pool(Cur, ClassSize(c), tot, FALSE))

\* C16 amended: the list has max(1, floor(total_sz / sz)) cells: a cell
\* larger than total_sz is a pool of one cell, the whole region.
C16_PoolCells ==
    st = "ok" =>
        \A c \in Classes, tot \in NewPoolTotals :
            /\ PoolOf(mpool_new_pool(Cur, ClassSize(c), tot, TRUE),
                      ClassSize(c), tot, Max(1, tot \div ClassSize(c)))
            /\ PoolFails(mpool_new_pool(Cur, ClassSize(c), tot, FALSE))

\* Pools have been built of cells smaller than a page and of cells larger
\* than a page.
C16_Witness ==
    /\ st = "ok"
    /\ \E k \in 1..Len(acq) : acq[k][3] # 0 /\ acq[k][3] < mp.pg_sz
    /\ \E k \in 1..Len(acq) : acq[k][3] > mp.pg_sz

\* ------------------------------------------------------------------------
\* C17
\* ------------------------------------------------------------------------
\* The number of registry entries that hold the pool p.
EntriesOf(s, p) == Cardinality({k \in 0..(s.mp.ct - 1) : s.ps[k] = p})

\* a is what mpool_alloc returned for a request of class c, whose head was
\* not NULL: np is the pool mapped by the call, if any.
ChainedPool(a, c, np) ==
    /\ a.s.st = "ok"
    /\ a.ret = mp.hs[c.i]
    /\ a.s.acq = Append(acq, <<np, Max(c.szceil, mp.pg_sz), ClassSize(c.i)>>)
    /\ c.szceil = ClassSize(c.i)
    /\ LoadWord(a.s.mem, mp.hs[c.i]) = np
    /\ a.s.mp.hs[c.i] = np
    /\ a.s.mp.ct = mp.ct + 1
    /\ a.s.ps[mp.ct] = np
    /\ a.s.sizes[mp.ct] = ClassSize(c.i)
    /\ EntriesOf(a.s, np) = 1

NoPool(a) ==
    /\ a.s.nmaps = nmaps /\ a.s.acq = acq
    /\ a.s.mp.ct = mp.ct /\ a.s.ps = ps /\ a.s.sizes = sizes

ChainsWhenExhausted(a, c) ==
    IF LoadWord(mem, mp.hs[c.i]) = NULL
    THEN a.s.nmaps = nmaps + 1 /\ ChainedPool(a, c, Base(nmaps + 1))
    ELSE NoPool(a)

\* n more mpool_alloc(sz) calls in a row; rets are the pointers returned so far
RECURSIVE AllocBurst(_, _, _, _)
AllocBurstNext(a, sz, n, rets) ==
    AllocBurst(a.s, sz, n - 1, Append(rets, a.ret))

AllocBurst(s, sz, n, rets) ==
    IF n = 0 THEN [s |-> s, rets |-> rets]
    ELSE AllocBurstNext(mpool_alloc(s, sz, EnvOK), sz, n, rets)

\* The pools of cell size csz mapped since the current state.
NewPools(s, csz) ==
    {s.acq[k][1] : k \in {j \in (Len(acq) + 1)..Len(s.acq) : s.acq[j][3] = csz}}

\* b is the outcome of a burst that started with the class's first pool: all
\* calls returned distinct cells and a second pool is linked into the list.
BurstChains(b, c) ==
    /\ b.s.st = "ok"
    /\ \A k \in 1..Len(b.rets) : b.rets[k] # NULL
    /\ \A k, j \in 1..Len(b.rets) : k # j => b.rets[k] # b.rets[j]
    /\ Cardinality(NewPools(b.s, ClassSize(c.i))) >= 2
    /\ \E np \in NewPools(b.s, ClassSize(c.i)) :
          /\ np # b.rets[1]
          /\ \/ b.s.mp.hs[c.i] = np
             \/ \E k \in 1..Len(b.rets) : LoadWord(b.s.mem, b.rets[k]) = np
                                           \/ b.rets[k] = np
          /\ EntriesOf(b.s, np) = 1

BurstOf(sz, c) ==
    BurstChains(AllocBurst(Cur, sz, 1 + (mp.pg_sz \div ClassSize(c.i)), <<>>), c)

AllocChains(sz, c) ==
    IF mp.hs[c.i] = NULL THEN BurstOf(sz, c)
    ELSE Mapped(mem, mp.hs[c.i], PtrSize)
            => ChainsWhenExhausted(mpool_alloc(Cur, sz, EnvOK), c)

\* C17: with no request for memory failing, a mpool_alloc whose class has a
\* head maps a new pool exactly when the head cell's first word is NULL on
\* entry; that pool has the class's cell size, the old head cell links to
\* its first cell, and it has exactly one entry in mp->ps; and from a class
\* without pool, 1 + pg_sz / cell size calls in a row all return distinct
\* non-null cells and leave a second pool of the class linked and registered.
C17_ChainsWhenExhausted ==
    st = "ok" =>
        \A sz \in ReqSizes :
            Pooled(sz) => AllocChains(sz, ClassLoop(0, mp.min_pool, sz))

\* A class's second pool has been chained by an allocation.
C17_Witness ==
    /\ st = "ok"
    /\ \E k, j \in 1..Len(acq) : k # j /\ acq[k][3] # 0 /\ acq[k][3] = acq[j][3]
    /\ \E k \in (MaxExp - MinExp + 1)..(mp.ct - 1) : ps[k] # NULL
    /\ Held # {}

\* ------------------------------------------------------------------------
\* C18
\* ------------------------------------------------------------------------
\* What mpool_init returns: nothing mapped, no head, no registry entry.
InitIsEmpty(s) ==
    /\ s.nmaps = 0 /\ s.acq = <<>> /\ s.mem = <<>>
    /\ DOMAIN s.mp.hs = Classes
    /\ \A i \in DOMAIN s.mp.hs : s.mp.hs[i] = NULL
    /\ \A k \in DOMAIN s.ps : s.ps[k] = NULL
    /\ \A k \in DOMAIN s.sizes : s.sizes[k] = 0

\* The regions mapped since the current state all have the cell size csz.
OnlyClass(s, csz) ==
    \A k \in (Len(acq) + 1)..Len(s.acq) : s.acq[k][3] = csz

ReleasedBy(f, p, sz) ==
    \E k \in 1..Len(f.rel) : f.rel[k] = <<p, sz, "free", 0>>

\* a is what mpool_alloc returned for a request of class c whose head was
\* NULL: the pool at p is the class's first, and a later mpool_free unmaps it.
\* A pool of a single cell is exhausted at once, and the call chains a
\* second pool of the class behind it.
FirstPool(a, c, p) ==
    /\ a.s.st = "ok"
    /\ a.s.acq[Len(acq) + 1] = <<p, Max(ClassSize(c.i), mp.pg_sz), ClassSize(c.i)>>
    /\ Len(a.s.acq) = Len(acq) + (IF mp.pg_sz \div ClassSize(c.i) <= 1 THEN 2 ELSE 1)
    /\ a.ret = p
    /\ a.s.ps[c.i] = p
    /\ a.s.sizes[c.i] = ClassSize(c.i)
    /\ \A j \in Classes \ {c.i} :
          /\ a.s.mp.hs[j] = mp.hs[j]
          /\ a.s.ps[j] = ps[j] /\ a.s.sizes[j] = sizes[j]
    /\ ReleasedBy(mpool_free(a.s), p, Max(ClassSize(c.i), mp.pg_sz))

BuildsLazily(a, c) ==
    /\ OnlyClass(a.s, ClassSize(c.i))
    /\ mp.hs[c.i] = NULL => FirstPool(a, c, Base(nmaps + 1))
    /\ mp.hs[c.i] # NULL => a.s.ps[c.i] = ps[c.i] /\ a.s.sizes[c.i] = sizes[c.i]

\* C18: mpool_init maps nothing and leaves every head NULL and every entry
\* of mp->ps and mp->sizes zero; a pooled mpool_alloc that finds its class's
\* head NULL maps the class's first pool, with the class's cell size, makes
\* its base the head (the cell it returns), and records it in mp->ps[i] and
\* mp->sizes[i], so that mpool_free unmaps it; and no mpool_alloc maps a
\* pool of another class's cell size.
C18_LazyPools ==
    /\ InitIsEmpty(mpool_init(MinExp, MaxExp))
    /\ st = "ok" =>
          \A sz \in ReqSizes :
              Pooled(sz) => BuildsLazily(mpool_alloc(Cur, sz, EnvOK),
                                         ClassLoop(0, mp.min_pool, sz))

\* One class has got its first pool while another class still has none.
C18_Witness ==
    /\ st = "ok"
    /\ \E i, j \in Classes :
          /\ ps[i] # NULL /\ sizes[i] = ClassSize(i) /\ mp.hs[i] # NULL
          /\ ps[j] = NULL /\ mp.hs[j] = NULL
    /\ \E e \in Held : \E i \in Classes : e[1] = ps[i]

\* ------------------------------------------------------------------------
\* C19
\* ------------------------------------------------------------------------
\* C19: once mpool_free has returned, the block of mp->ps, the block of
\* mp->sizes and the mpool structure have all been freed, and no block that
\* mpool_init or add_pool allocated is left.
C19_TeardownFreesBlocks ==
    st = "freed" =>
        /\ blk.psFreed
        /\ blk.sizesFreed
        /\ blk.mpFreed
        /\ blk.lost = 0

\* ------------------------------------------------------------------------
\* C20
\* ------------------------------------------------------------------------
\* The bytes a cell at address c can hold: the cell size of the pool it lies
\* in, or the whole region when the region was mapped for one request.
CapacityIn(r, c) == IF r[3] = 0 THEN r[1] + r[2] - c ELSE r[3]

Capacities(c) ==
    {CapacityIn(acq[k], c) :
        k \in {j \in 1..Len(acq) : acq[j][1] <= c /\ c < acq[j][1] + acq[j][2]}}

\* The list L ends at a cell whose first word is NULL and visits no cell twice.
EndsAtNull(L) ==
    /\ Len(L) >= 1
    /\ LoadWord(mem, L[Len(L)]) = NULL
    /\ \A k, j \in 1..Len(L) : k # j => L[k] # L[j]

ListIsSound(i, L) ==
    /\ EndsAtNull(L)
    /\ \A k \in 1..Len(L) :
          /\ \A e \in Held : Disjoint(L[k], PtrSize, e[1], e[2])
          /\ \A j \in Classes \ {i} :
                \A n \in 1..Len(FreeList(Cur, j)) : FreeList(Cur, j)[n] # L[k]
          /\ Capacities(L[k]) # {}
          /\ \A cap \in Capacities(L[k]) : cap >= ClassSize(i)

\* C20: in every state reached by calls with matching sizes, the list from
\* each head that is not NULL ends at a NULL link without visiting a cell
\* twice, none of its cells is held by the client or lies on another
\* class's list, and each cell has room for the class's cell size.
C20_FreeListsSound ==
    st = "ok" =>
        \A i \in Classes : mp.hs[i] # NULL => ListIsSound(i, FreeList(Cur, i))

\* ------------------------------------------------------------------------
\* C21
\* ------------------------------------------------------------------------
\* Every head that is not NULL in the current state is not NULL in s.
HeadsStay(s) == \A j \in Classes : mp.hs[j] # NULL => s.mp.hs[j] # NULL

\* a is what mpool_alloc returned for a request of class c: no assertion
\* failed, and a call that returned a cell left the class a head that is
\* another, mapped cell.
AllocKeepsHead(a, c) ==
    /\ a.s.st # "aborted"
    /\ HeadsStay(a.s)
    /\ a.ret # NULL =>
          /\ a.s.mp.hs[c.i] # NULL
          /\ a.s.mp.hs[c.i] # a.ret
          /\ Mapped(a.s.mem, a.s.mp.hs[c.i], PtrSize)

\* C21: from every reachable state, no assertion fails in a pooled
\* mpool_alloc; a head that is not NULL stays not NULL over every
\* mpool_alloc and mpool_repool; and every pooled mpool_alloc that returns a
\* cell leaves its class a head that points to a further free cell.
C21_HeadsStay ==
    st = "ok" =>
        /\ \A sz \in ReqSizes :
              Pooled(sz) => AllocKeepsHead(mpool_alloc(Cur, sz, EnvOK),
                                           ClassLoop(0, mp.min_pool, sz))
        /\ \A e \in Held : HeadsStay(mpool_repool(Cur, e[1], e[2]))

\* ------------------------------------------------------------------------
\* C22
\* ------------------------------------------------------------------------
\* a is what a mpool_alloc in which a mmap failed returned, and it left the
\* pool set as it was.
FailsClean(a) == a.ret = NULL /\ a.s = Cur

\* The class c had no pool, its first pool at p was mapped, and the mmap of
\* the pool to chain behind its only cell failed: the first pool stays, as
\* the class's head and in mp->ps[i] and mp->sizes[i], and nothing else
\* differs from the state before the call.
FailsWithFirstPool(a, c, p) ==
    /\ a.ret = NULL /\ a.s.st = "ok"
    /\ a.s.nmaps = nmaps + 1
    /\ a.s.acq = Append(acq, <<p, Max(ClassSize(c.i), mp.pg_sz), ClassSize(c.i)>>)
    /\ a.s.rel = rel /\ a.s.blk = blk
    /\ a.s.mp = [mp EXCEPT !.hs[c.i] = p]
    /\ a.s.ps = [ps EXCEPT ![c.i] = p]
    /\ a.s.sizes = [sizes EXCEPT ![c.i] = ClassSize(c.i)]
    /\ \A x \in DOMAIN mem : a.s.mem[x] = mem[x]
    /\ FreeList(a.s, c.i) = <<p>>
    /\ LoadWord(a.s.mem, p) = NULL
    /\ ReleasedBy(mpool_free(a.s), p, Max(ClassSize(c.i), mp.pg_sz))

\* Whether the second mmap of a pooled call for class c is the one to fail.
SecondFails(c, env) ==
    /\ mp.hs[c.i] = NULL
    /\ mp.pg_sz \div ClassSize(c.i) <= 1
    /\ env.m1 /\ ~env.m2

FailsPooled(a, c, env) ==
    IF a.ret # NULL THEN TRUE
    ELSE IF SecondFails(c, env) THEN FailsWithFirstPool(a, c, Base(nmaps + 1))
    ELSE FailsClean(a)

FailsAny(sz, env) ==
    IF IsBypass(mp.max_pool, sz)
    THEN ~env.m1 => FailsClean(mpool_alloc(Cur, sz, env))
    ELSE FailsPooled(mpool_alloc(Cur, sz, env), ClassLoop(0, mp.min_pool, sz), env)

\* C22 as stated: a mpool_alloc in which a mmap fails returns NULL, ends in
\* no assertion or fault, and leaves the pool set, its heads, links and
\* registry exactly as they were.
C22_FailureLeavesState ==
    st = "ok" =>
        \A sz \in ReqSizes, env \in EnvMapFail :
            mpool_alloc(Cur, sz, env).ret = NULL
                => FailsClean(mpool_alloc(Cur, sz, env))

\* C22, amended: a mpool_alloc in which a mmap fails returns NULL without
\* assertion or fault and leaves the pool set exactly as it was, unless the
\* class had no pool, its pools hold a single cell, and the failing mmap is
\* the one for the pool to chain: then the class's first pool stays mapped,
\* as head and registered so that mpool_free unmaps it, and nothing else
\* has changed.
C22_FailureKeepsFirstPool ==
    st = "ok" => \A sz \in ReqSizes, env \in EnvMapFail : FailsAny(sz, env)

\* A class's only pool is its untouched first one: the mmap of the pool to
\* chain behind it has failed.
C22_Witness ==
    /\ st = "ok"
    /\ \E i \in Classes :
          /\ mp.hs[i] # NULL /\ mp.hs[i] = ps[i]
          /\ LoadWord(mem, mp.hs[i]) = NULL
          /\ \A e \in Held : e[1] # ps[i]

\* ------------------------------------------------------------------------
\* C23
\* ------------------------------------------------------------------------
\* C23: on every pool set mpool_init builds, with max2 >= min2 >= 0, the
\* assertion "sz > sizeof(void *)" of mpool_new_pool never fails, and every
\* pool that mpool_alloc maps has cells larger than one pointer.
C23_CellsHoldLink ==
    /\ st # "aborted"
    /\ \A k \in 1..Len(acq) : acq[k][3] # 0 => acq[k][3] > PtrSize

====
